---- MODULE Spec2Model ----
(***************************************************************************)
(* Model of src/scripts/convert_tag_to_field.py: convert_measurement turns *)
(* the raw points of one InfluxDB measurement into points whose keys are   *)
(* reclassified as tags or fields, keeping the (time, tag values) series   *)
(* key of every converted point unique, and writes them in batches.        *)
(*                                                                         *)
(* Representation.                                                         *)
(*  - A key name is a sequence of text pieces whose concatenation is the   *)
(*    Python string; the two characters "_1" are always a piece of their   *)
(*    own, so k[-2:] == '_1' is "the last piece is _1" and k[:-2] drops    *)
(*    it.  Key("cwnd") is 'cwnd', Dup(Key("cwnd")) is 'cwnd_1'.            *)
(*  - A Python value is [ty, v]: its type and its text.  str(x) is x.v.    *)
(*  - A time is a number of microseconds (np.datetime64 ticks); the        *)
(*    emitted time str(series[0]) is the ISO text of that instant, which   *)
(*    is kept as the tick count.                                           *)
(*  - A raw point pt is [time, items]: items is the dict without 'time',   *)
(*    as the sequence of its <<key, value>> pairs in iteration order.      *)
(***************************************************************************)
EXTENDS Integers, Sequences, FiniteSets, TLC

VARIABLES measurement_name, pc, exit_msg, dup_check, json_body, written,
          inputs, series_log, emitted,
          conv_pc, snapshot, todo, calls, finished

\* convert: the statement it is at, the measurements of the restored
\* snapshot, those not yet converted, the calls made so far, and the runs
\* of convert_measurement that returned
cvars == <<conv_pc, snapshot, todo, calls, finished>>

vars == <<measurement_name, pc, exit_msg, dup_check, json_body, written,
          inputs, series_log, emitted, cvars>>

(***************************************************************************)
(* Bounds of the model                                                     *)
(***************************************************************************)
\* raw points read from one measurement in the small-input specification
MaxPoints == 3
\* largest raw timestamp (in ticks) of the small-input specification
MaxTime == 1
\* raw points read from one measurement in the batching specification
MaxBatchPoints == 2001
\* measurements of the restored snapshot in the specification of convert
MaxMeasurements == 2
\* raw points read from one measurement in the specification of convert
MaxConvertPoints == 2

(***************************************************************************)
(* Keys and Python values                                                  *)
(***************************************************************************)
Key(name) == <<name>>
Dup(k) == Append(k, "_1")

NoneVal == [ty |-> "NoneType", v |-> "None"]
PyStr(s) == [ty |-> "str", v |-> s]
PyInt(s) == [ty |-> "int", v |-> s]
PyFloat(s) == [ty |-> "float", v |-> s]

\* str(x)
str(x) == x.v

\* str(n) of a small positive int n (fake_server_id)
Decimal == <<"1", "2", "3", "4", "5", "6", "7", "8", "9">>
str_int(n) == Decimal[n]

\* texts int() and float() parse, with the text of the result
IntText == [t \in {"1", "2"} |-> t]
FloatText == ("1" :> "1.0") @@ ("2" :> "2.0") @@ ("3.5" :> "3.5")
             @@ ("1.0" :> "1.0") @@ ("2.0" :> "2.0")
TruncText == ("1.0" :> "1") @@ ("2.0" :> "2") @@ ("3.5" :> "3")

ValueError == [ty |-> "ValueError", v |-> "ValueError"]

\* int(x)
py_int(x) ==
    CASE x.ty = "int" -> x
      [] x.ty = "float" -> PyInt(TruncText[x.v])
      [] x.ty = "str" ->
            IF x.v \in DOMAIN IntText THEN PyInt(IntText[x.v]) ELSE ValueError
      [] OTHER -> ValueError

\* float(x)
py_float(x) ==
    CASE x.ty = "float" -> x
      [] x.ty = "int" -> PyFloat(FloatText[x.v])
      [] x.ty = "str" ->
            IF x.v \in DOMAIN FloatText THEN PyFloat(FloatText[x.v])
            ELSE ValueError
      [] OTHER -> ValueError

\* field_keys[measurement_name][k](value)
Coerce(type, x) ==
    CASE type = "int" -> py_int(x)
      [] type = "float" -> py_float(x)
      [] OTHER -> PyStr(str(x))

(***************************************************************************)
(* The schema tables                                                       *)
(***************************************************************************)
tag_keys ==
    [active_streams |-> <<Key("channel"), Key("server_id")>>,
     backlog        |-> <<Key("channel")>>,
     channel_status |-> <<Key("channel")>>,
     client_buffer  |-> <<Key("channel"), Key("server_id")>>,
     client_error   |-> <<>>,
     client_sysinfo |-> <<Key("server_id")>>,
     decoder_info   |-> <<Key("channel")>>,
     server_info    |-> <<Key("server_id")>>,
     ssim           |-> <<Key("channel"), Key("format")>>,
     video_acked    |-> <<Key("channel"), Key("server_id")>>,
     video_sent     |-> <<Key("channel"), Key("server_id")>>,
     video_size     |-> <<Key("channel"), Key("format")>>]

\* a dict {name: type} as a function of keys
Fields(rec) == [k \in {Key(n) : n \in DOMAIN rec} |-> rec[k[1]]]

field_keys ==
    [active_streams |-> Fields([count |-> "int", expt_id |-> "int"]),
     backlog        |-> Fields([canonical_cnt |-> "int", working_cnt |-> "int"]),
     channel_status |-> Fields([selected_rate |-> "float", snr |-> "float"]),
     client_buffer  |-> Fields([buffer |-> "float", cum_rebuf |-> "float",
                                event |-> "str", expt_id |-> "int",
                                init_id |-> "int", user |-> "str"]),
     client_error   |-> Fields([error |-> "str", init_id |-> "int",
                                user |-> "str"]),
     client_sysinfo |-> Fields([browser |-> "str", expt_id |-> "int",
                                init_id |-> "int", ip |-> "str", os |-> "str",
                                screen_height |-> "int", screen_width |-> "int",
                                user |-> "str"]),
     decoder_info   |-> Fields([due |-> "int", filler_fields |-> "int",
                                timestamp |-> "int"]),
     server_info    |-> (Dup(Key("server_id")) :> "int"),
     ssim           |-> Fields([ssim_index |-> "float", timestamp |-> "int"]),
     video_acked    |-> Fields([buffer |-> "float", cum_rebuffer |-> "float",
                                expt_id |-> "int", init_id |-> "int",
                                ssim_index |-> "float", user |-> "str",
                                video_ts |-> "int"]),
     video_sent     |-> Fields([buffer |-> "float", cum_rebuffer |-> "float",
                                cwnd |-> "int", delivery_rate |-> "int",
                                expt_id |-> "int", format |-> "str",
                                in_flight |-> "int", init_id |-> "int",
                                min_rtt |-> "int", rtt |-> "int", size |-> "int",
                                ssim_index |-> "float", user |-> "str",
                                video_ts |-> "int"]),
     video_size     |-> Fields([size |-> "int", timestamp |-> "int"])]

\* the flush threshold of json_body
BatchSize == 1000

Range(s) == {s[i] : i \in 1..Len(s)}

(***************************************************************************)
(* dict operations on a raw point                                          *)
(***************************************************************************)
\* k in pt
HasKey(pt, k) == \E i \in 1..Len(pt.items) : pt.items[i][1] = k
\* pt[k]
Get(pt, k) == pt.items[CHOOSE i \in 1..Len(pt.items) : pt.items[i][1] = k][2]
\* d[k] = x
Put(d, k, x) == [j \in DOMAIN d \cup {k} |-> IF j = k THEN x ELSE d[j]]
EmptyDict == <<>>

(***************************************************************************)
(* One iteration of the loop over results[measurement_name]                *)
(***************************************************************************)
\* fake_server_id = None
NoFake == 0

\* MissingTagExits with `and` for `or`
MissingTagExitsAnd(m, tag_key) ==
    tag_key # Key("server_id")
    /\ (m # "client_buffer" /\ m # "video_sent" /\ m # "video_acked")

\* a missing tag_key is fatal: the only excused one is 'server_id' in
\* 'client_buffer', 'video_sent' or 'video_acked'
MissingTagExits(m, tag_key) ==
    tag_key # Key("server_id")
    \/ (m # "client_buffer" /\ m # "video_sent" /\ m # "video_acked")

\* The loop over tag_keys[measurement_name] building `series`, from the
\* i-th tag key on.  st is [series, fake_server_id, fake_server_id_idx,
\* exit]; series[1] is the time (Python series[0]).
RECURSIVE BuildSeries(_, _, _, _)
BuildSeries(m, pt, i, st) ==
    IF i > Len(tag_keys[m]) THEN st
    ELSE LET tag_key == tag_keys[m][i] IN
         IF HasKey(pt, tag_key)
         THEN BuildSeries(m, pt, i + 1,
                  [st EXCEPT !.series = Append(@, str(Get(pt, tag_key)))])
         ELSE IF MissingTagExits(m, tag_key)
              THEN [st EXCEPT !.exit = "MissingDeclaredTag"]
              ELSE BuildSeries(m, pt, i + 1,
                       [st EXCEPT !.fake_server_id = 1,
                                  !.series = Append(@, str_int(1)),
                                  !.fake_server_id_idx = Len(st.series) + 1])

\* series = [np.datetime64(pt['time'])] and the loop over the tag keys
InitialSeries(m, pt) ==
    BuildSeries(m, pt, 1,
        [series |-> <<pt.time>>, fake_server_id |-> NoFake,
         fake_server_id_idx |-> NoFake, exit |-> "none"])

\* TimestampExits without video_acked
TimestampExitsTwo(m) == m = "client_buffer" \/ m = "video_sent"

\* the measurements whose timestamp is not adjusted
TimestampExits(m) ==
    m = "client_buffer" \/ m = "video_sent" \/ m = "video_acked"

\* Resolve when the loop body never runs
ResolveNever(m, st, dup) == st

\* while tuple(series) in dup_check: adjust fake_server_id or the timestamp
RECURSIVE Resolve(_, _, _)
Resolve(m, st, dup) ==
    IF st.series \notin dup THEN st
    ELSE IF st.fake_server_id # NoFake
         THEN Resolve(m,
                  [st EXCEPT !.fake_server_id = @ + 1,
                             !.series[st.fake_server_id_idx] =
                                 str_int(st.fake_server_id + 1)],
                  dup)
         ELSE IF TimestampExits(m)
              THEN [st EXCEPT !.exit = "UnresolvableCollision"]
              ELSE Resolve(m, [st EXCEPT !.series[1] = @ + 1], dup)

\* Normalize without the server_info exception
NormalizeAll(m, pt_k) ==
    IF Len(pt_k) >= 1 /\ pt_k[Len(pt_k)] = "_1"
    THEN SubSeq(pt_k, 1, Len(pt_k) - 1)
    ELSE pt_k

\* the normalised key k of raw key pt_k
Normalize(m, pt_k) ==
    IF m # "server_info"
    THEN IF Len(pt_k) >= 1 /\ pt_k[Len(pt_k)] = "_1"
         THEN SubSeq(pt_k, 1, Len(pt_k) - 1)
         ELSE pt_k
    ELSE pt_k

\* KeyKind with an undeclared key kept as a tag
KeyKindTagDefault(m, k) ==
    IF k \in DOMAIN field_keys[m] THEN "field" ELSE "tag"

\* where the normalised key k goes: tags, fields or the exit
KeyKind(m, k) ==
    IF k \in Range(tag_keys[m]) THEN "tag"
    ELSE IF k \in DOMAIN field_keys[m] THEN "field"
    ELSE "exit"

\* The loop `for pt_k in pt` from the i-th item on.  cl is [tags, fields,
\* exit]; 'time' is not among the items, so line 142 never skips here.
RECURSIVE Classify(_, _, _, _)
Classify(m, items, i, cl) ==
    IF i > Len(items) THEN cl
    ELSE LET pt_k == items[i][1]
             val == items[i][2]
             k == Normalize(m, pt_k)
         IN  IF val = NoneVal THEN Classify(m, items, i + 1, cl)
             ELSE IF KeyKind(m, k) = "tag"
                  THEN Classify(m, items, i + 1,
                           [cl EXCEPT !.tags = Put(@, k, str(val))])
                  ELSE IF KeyKind(m, k) = "field"
                       THEN LET c == Coerce(field_keys[m][k], val) IN
                            IF c = ValueError
                            THEN [cl EXCEPT !.exit = "TypeCoercionFailure"]
                            ELSE Classify(m, items, i + 1,
                                     [cl EXCEPT !.fields = Put(@, k, c)])
                       ELSE [cl EXCEPT !.exit = "UnclassifiableKey"]

\* tags and fields of a point whose resolved fake_server_id is `fake`
TagsAndFields(m, pt, fake) ==
    Classify(m, pt.items, 1,
        [tags |-> IF fake # NoFake
                  THEN Put(EmptyDict, Key("server_id"), str_int(fake))
                  ELSE EmptyDict,
         fields |-> EmptyDict,
         exit |-> "none"])

\* The body of the loop for raw point pt with the seen-set dup: the exit
\* taken ("none" when the point is appended), the resolved series (added
\* to dup_check when `added`), and the point appended to json_body.
ConvertPoint(m, pt, dup) ==
    LET s0 == InitialSeries(m, pt) IN
    IF s0.exit # "none"
    THEN [exit |-> s0.exit, added |-> FALSE, st |-> s0, point |-> <<>>]
    ELSE LET s1 == Resolve(m, s0, dup) IN
         IF s1.exit # "none"
         THEN [exit |-> s1.exit, added |-> FALSE, st |-> s1, point |-> <<>>]
         ELSE LET cl == TagsAndFields(m, pt, s1.fake_server_id) IN
              [exit |-> cl.exit, added |-> TRUE, st |-> s1,
               point |-> IF cl.exit # "none" THEN <<>>
                         ELSE [measurement |-> m, time |-> s1.series[1],
                               tags |-> cl.tags, fields |-> cl.fields]]

(***************************************************************************)
(* The raw points the specifications read                                  *)
(***************************************************************************)
\* one field of each measurement, used in the raw points below
sample_field ==
    [active_streams |-> Key("count"),
     backlog        |-> Key("working_cnt"),
     channel_status |-> Key("snr"),
     client_buffer  |-> Key("buffer"),
     client_error   |-> Key("error"),
     client_sysinfo |-> Key("os"),
     decoder_info   |-> Key("due"),
     server_info    |-> Dup(Key("server_id")),
     ssim           |-> Key("ssim_index"),
     video_acked    |-> Key("video_ts"),
     video_sent     |-> Key("cwnd"),
     video_size     |-> Key("size")]

\* the raw value of tag key k: server ids are decimal texts
TagValue(k, alt) ==
    IF k = Key("server_id")
    THEN (IF alt THEN PyStr("2") ELSE PyStr("1"))
    ELSE (IF alt THEN PyStr("b") ELSE PyStr("a"))

\* the declared tag keys from the i-th on as dict items, without the
\* skip-th, the alt-th with its other value, the none-th with None
RECURSIVE TagItems(_, _, _, _, _)
TagItems(m, i, skip, alt, none) ==
    IF i > Len(tag_keys[m]) THEN <<>>
    ELSE (IF i = skip THEN <<>>
          ELSE << <<tag_keys[m][i],
                    IF i = none THEN NoneVal
                    ELSE TagValue(tag_keys[m][i], i = alt)>> >>)
         \o TagItems(m, i + 1, skip, alt, none)

Point(t, items) == [time |-> t, items |-> items]
FullTags(m) == TagItems(m, 1, 0, 0, 0)
GoodField(m) == << <<sample_field[m], PyStr("2")>> >>

RawPoints(m) ==
    LET n == Len(tag_keys[m])
        f == sample_field[m]
    IN  \* every declared tag and one field, at each time
        {Point(t, FullTags(m) \o GoodField(m)) : t \in 0..MaxTime}
        \* one tag with its other value
        \cup {Point(0, TagItems(m, 1, 0, i, 0) \o GoodField(m)) : i \in 1..n}
        \* one tag missing
        \cup {Point(0, TagItems(m, 1, i, 0, 0) \o GoodField(m)) : i \in 1..n}
        \* the first tag None
        \cup {Point(0, TagItems(m, 1, 0, 0, 1) \o GoodField(m)) : i \in 1..n}
        \* the first tag and its _1 duplicate
        \cup {Point(0, FullTags(m)
                       \o << <<Dup(tag_keys[m][1]), PyStr("b")>> >>)
                : i \in 1..n}
        \* server_id missing, server_id_1 given
        \cup {Point(0, TagItems(m, 1, i, 0, 0)
                       \o << <<Dup(Key("server_id")), PyStr("2")>> >>)
                : i \in {j \in 1..n : tag_keys[m][j] = Key("server_id")}}
        \* a field, its _1 duplicate and a None value of an undeclared key
        \cup {Point(0, FullTags(m)
                       \o << <<f, PyStr("2")>>, <<Dup(f), PyFloat("3.5")>>,
                             <<Key("bogus"), NoneVal>> >>)}
        \* the _1 duplicate of the first tag, read before the tag
        \cup {Point(0, << <<Dup(tag_keys[m][1]), PyStr("b")>> >>
                       \o FullTags(m))
                : i \in 1..n}
        \* only the _1 duplicate of a field
        \cup {Point(0, FullTags(m) \o << <<Dup(f), PyFloat("3.5")>> >>)}
        \* an undeclared key
        \cup {Point(0, FullTags(m) \o << <<Key("bogus"), PyStr("a")>> >>)}
        \* a field value that is no number, before and after an undeclared key
        \cup {Point(0, FullTags(m) \o << <<f, PyStr("a")>> >>),
              Point(0, FullTags(m)
                       \o << <<f, PyStr("a")>>, <<Key("bogus"), PyStr("a")>> >>),
              Point(0, FullTags(m)
                       \o << <<Key("bogus"), PyStr("a")>>, <<f, PyStr("a")>> >>)}

\* the raw point read after n points in the batching specification: two
\* points in a row share a time; the second draw is an undeclared key
BatchPoints(m, n) ==
    {Point(2 * (n \div 2),
           (IF m \in {"client_buffer", "video_sent", "video_acked"}
            THEN TagItems(m, 1, Len(tag_keys[m]), 0, 0) ELSE FullTags(m))
           \o GoodField(m)),
     Point(n, FullTags(m) \o << <<Key("bogus"), PyStr("a")>> >>)}

(***************************************************************************)
(* convert_measurement                                                     *)
(***************************************************************************)
\* json_body = [], dup_check = set(), before the first point is read
Start(m) ==
    /\ measurement_name = m
    /\ pc = "loop"
    /\ exit_msg = "none"
    /\ dup_check = {}
    /\ json_body = <<>>
    /\ written = <<>>
    /\ inputs = <<>>
    /\ series_log = <<>>
    /\ emitted = <<>>

\* len(json_body) >= 1000
FlushDue(body) == Len(body) >= BatchSize

\* one iteration of `for pt in results[measurement_name]`
ProcessPoint(pt) ==
    /\ pc = "loop"
    /\ LET r == ConvertPoint(measurement_name, pt, dup_check)
           body == Append(json_body, r.point)
       IN  /\ inputs' = Append(inputs, pt)
           /\ dup_check' = IF r.added THEN dup_check \cup {r.st.series}
                           ELSE dup_check
           /\ series_log' = IF r.added THEN Append(series_log, r.st.series)
                            ELSE series_log
           /\ IF r.exit # "none"
              THEN /\ pc' = "exit"
                   /\ exit_msg' = r.exit
                   /\ UNCHANGED <<json_body, written, emitted>>
              ELSE /\ emitted' = Append(emitted, r.point)
                   /\ IF FlushDue(body)
                      THEN /\ written' = Append(written, body)
                           /\ json_body' = <<>>
                      ELSE /\ json_body' = body
                           /\ UNCHANGED written
                   /\ UNCHANGED <<pc, exit_msg>>
    /\ UNCHANGED measurement_name

\* EndOfResults without the final flush
EndOfResultsNoFlush ==
    /\ pc = "loop"
    /\ pc' = "done"
    /\ UNCHANGED <<measurement_name, exit_msg, dup_check, json_body, written,
                   inputs, series_log, emitted>>

\* the cursor is exhausted: the final flush and the return
EndOfResults ==
    /\ pc = "loop"
    /\ pc' = "done"
    /\ IF json_body # <<>>
       THEN /\ written' = Append(written, json_body)
            /\ UNCHANGED json_body
       ELSE UNCHANGED <<written, json_body>>
    /\ UNCHANGED <<measurement_name, exit_msg, dup_check, inputs,
                   series_log, emitted>>

Measurements == DOMAIN tag_keys

(***************************************************************************)
(* convert                                                                 *)
(***************************************************************************)
Call(name, arg) == [call |-> name, arg |-> arg]

\* the calls of convert before it asks for the measurements
CleanStartCalls ==
    <<Call("download_untar", ""),
      Call("drop_database", "TMP_DB"),
      Call("drop_database", "DST_DB"),
      Call("create_database", "DST_DB"),
      Call("influxd restore", "TMP_DB"),
      Call("switch_database", "TMP_DB"),
      Call("get_list_measurements", "")>>

\* convert is in convert_measurement(m), the only measurement of the
\* snapshot
Called(m) ==
    /\ conv_pc = "for"
    /\ snapshot = <<m>>
    /\ todo = <<>>
    /\ calls = Append(CleanStartCalls, Call("convert_measurement", m))
    /\ finished = <<>>

Init == \E m \in Measurements : Start(m) /\ Called(m)

Next ==
    \/ /\ \E pt \in RawPoints(measurement_name) :
              Len(inputs) < MaxPoints /\ ProcessPoint(pt)
       /\ UNCHANGED cvars
    \/ EndOfResults /\ UNCHANGED cvars

Spec == Init /\ [][Next]_vars

\* long runs of a few measurements, to cross the flush threshold
BatchMeasurements == {"client_buffer", "ssim"}

InitBatch == \E m \in BatchMeasurements : Start(m) /\ Called(m)

NextBatch ==
    \/ /\ \E pt \in BatchPoints(measurement_name, Len(inputs)) :
              Len(inputs) < MaxBatchPoints /\ ProcessPoint(pt)
       /\ UNCHANGED cvars
    \/ EndOfResults /\ UNCHANGED cvars

SpecBatch == InitBatch /\ [][NextBatch]_vars

\* the state of convert_measurement while convert is not in it
NotCalled ==
    /\ measurement_name = ""
    /\ pc = "idle"
    /\ exit_msg = "none"
    /\ dup_check = {}
    /\ json_body = <<>>
    /\ written = <<>>
    /\ inputs = <<>>
    /\ series_log = <<>>
    /\ emitted = <<>>

mvars == <<measurement_name, pc, exit_msg, dup_check, json_body, written,
           inputs, series_log, emitted>>

\* convert is entered
InitConvert ==
    /\ NotCalled
    /\ conv_pc = "download"
    /\ snapshot = <<>>
    /\ todo = <<>>
    /\ calls = <<>>
    /\ finished = <<>>

\* download_untar(f): it returns or raises
Download ==
    /\ conv_pc = "download"
    /\ calls' = Append(calls, Call("download_untar", ""))
    /\ \/ conv_pc' = "clean"
       \/ conv_pc' = "failed"
    /\ UNCHANGED <<mvars, snapshot, todo, finished>>

\* CleanStart that keeps the destination database of the previous day
CleanStartKeepsDst ==
    /\ conv_pc = "clean"
    /\ calls' = Append(calls, Call("drop_database", "TMP_DB"))
    /\ conv_pc' = "restore"
    /\ UNCHANGED <<mvars, snapshot, todo, finished>>

\* clean start: drop TMP_DB and DST_DB, create DST_DB
CleanStart ==
    /\ conv_pc = "clean"
    /\ calls' = calls \o <<Call("drop_database", "TMP_DB"),
                           Call("drop_database", "DST_DB"),
                           Call("create_database", "DST_DB")>>
    /\ conv_pc' = "restore"
    /\ UNCHANGED <<mvars, snapshot, todo, finished>>

\* check_call of influxd restore: it returns or raises
Restore ==
    /\ conv_pc = "restore"
    /\ calls' = Append(calls, Call("influxd restore", "TMP_DB"))
    /\ \/ conv_pc' = "list"
       \/ conv_pc' = "failed"
    /\ UNCHANGED <<mvars, snapshot, todo, finished>>

\* switch_database(TMP_DB) and get_list_measurements(), which answers one
\* of `lists`
ListMeasurements(lists) ==
    /\ conv_pc = "list"
    /\ calls' = calls \o <<Call("switch_database", "TMP_DB"),
                           Call("get_list_measurements", "")>>
    /\ \E l \in lists : snapshot' = l /\ todo' = l
    /\ conv_pc' = "for"
    /\ UNCHANGED <<mvars, finished>>

\* the run of convert_measurement that convert is in or has left
CurrentRun ==
    [name |-> measurement_name, inputs |-> inputs, emitted |-> emitted,
     written |-> written, exit |-> exit_msg]

\* NewDupCheck when the set outlives the call
KeptDupCheck == dup_check

\* dup_check = set()
NewDupCheck == {}

\* the next turn of `for measurement in measurements`: the call
\* convert_measurement(measurement_name, influx_client) up to its loop
CallConvertMeasurement ==
    /\ conv_pc = "for"
    /\ pc \in {"idle", "done"}
    /\ todo # <<>>
    /\ finished' = IF pc = "done" THEN Append(finished, CurrentRun)
                   ELSE finished
    /\ measurement_name' = Head(todo)
    /\ todo' = Tail(todo)
    /\ calls' = Append(calls, Call("convert_measurement", Head(todo)))
    /\ pc' = "loop"
    /\ exit_msg' = "none"
    /\ dup_check' = NewDupCheck
    /\ json_body' = <<>>
    /\ written' = <<>>
    /\ inputs' = <<>>
    /\ series_log' = <<>>
    /\ emitted' = <<>>
    /\ UNCHANGED <<conv_pc, snapshot>>

\* AllConverted when a fatal exit of convert_measurement is survived
AllConvertedOrAborted == todo = <<>> /\ pc \in {"idle", "done", "exit"}

\* the loop over the measurements is over
AllConverted == todo = <<>> /\ pc \in {"idle", "done"}

\* back up: makedirs and check_call of influxd backup, which returns or
\* raises
Backup ==
    /\ conv_pc = "for"
    /\ AllConverted
    /\ calls' = Append(calls, Call("influxd backup", "DST_DB"))
    /\ \/ conv_pc' = "tar"
       \/ conv_pc' = "failed"
    /\ UNCHANGED <<mvars, snapshot, todo, finished>>

\* compress dst_dir: check_call of tar, which returns or raises
Compress ==
    /\ conv_pc = "tar"
    /\ calls' = Append(calls, Call("tar czvf", ""))
    /\ \/ conv_pc' = "upload"
       \/ conv_pc' = "failed"
    /\ UNCHANGED <<mvars, snapshot, todo, finished>>

\* upload to Google cloud: check_call of gsutil cp, which returns or raises
Upload ==
    /\ conv_pc = "upload"
    /\ calls' = Append(calls, Call("gsutil cp", ""))
    /\ \/ conv_pc' = "returned"
       \/ conv_pc' = "failed"
    /\ UNCHANGED <<mvars, snapshot, todo, finished>>

\* the raw points read in the specification of convert: every tag, the last
\* tag missing, an undeclared key
ConvertPoints(m) ==
    {Point(0, FullTags(m) \o GoodField(m)),
     Point(0, TagItems(m, 1, Len(tag_keys[m]), 0, 0) \o GoodField(m)),
     Point(0, FullTags(m) \o << <<Key("bogus"), PyStr("a")>> >>)}

\* the measurements get_list_measurements answers in the specification of
\* convert
ConvertMeasurements == {"client_buffer", "ssim", "video_size"}

\* the raw points read in the specification with fairness: those of
\* ConvertPoints and, at each time, the point with every tag and the one
\* with the other value of the last tag
CollisionPoints(m) ==
    ConvertPoints(m)
    \cup {Point(t, FullTags(m) \o GoodField(m)) : t \in 0..MaxTime}
    \cup {Point(t, TagItems(m, 1, 0, Len(tag_keys[m]), 0) \o GoodField(m)) :
             t \in 0..MaxTime}

InitFair == \E m \in ConvertMeasurements : Start(m) /\ Called(m)

NextFair ==
    \/ /\ \E pt \in CollisionPoints(measurement_name) :
              Len(inputs) < MaxPoints /\ ProcessPoint(pt)
       /\ UNCHANGED cvars
    \/ EndOfResults /\ UNCHANGED cvars

\* the interpreter keeps running convert_measurement: it reads the next
\* point or finds the cursor exhausted
FairSpec == InitFair /\ [][NextFair]_vars /\ WF_vars(NextFair)

\* the lists of at most n distinct measurements
RECURSIVE ListsUpTo(_)
ListsUpTo(n) ==
    IF n = 0 THEN {<<>>}
    ELSE ListsUpTo(n - 1)
         \cup {Append(l, m) : l \in {x \in ListsUpTo(n - 1) : Len(x) = n - 1},
                              m \in ConvertMeasurements}

MeasurementLists ==
    {l \in ListsUpTo(MaxMeasurements) :
        \A i, j \in 1..Len(l) : i # j => l[i] # l[j]}

\* the steps of convert outside convert_measurement
ConvertSteps(lists) ==
    \/ Download
    \/ CleanStart
    \/ Restore
    \/ ListMeasurements(lists)
    \/ CallConvertMeasurement
    \/ Backup
    \/ Compress
    \/ Upload

NextConvert ==
    \/ ConvertSteps(MeasurementLists)
    \/ /\ pc = "loop"
       /\ \E pt \in ConvertPoints(measurement_name) :
              Len(inputs) < MaxConvertPoints /\ ProcessPoint(pt)
       /\ UNCHANGED cvars
    \/ EndOfResults /\ UNCHANGED cvars

SpecConvert == InitConvert /\ [][NextConvert]_vars

\* convert on a snapshot of one long measurement
BatchLists == {<<m>> : m \in BatchMeasurements}

NextConvertBatch ==
    \/ ConvertSteps(BatchLists)
    \/ /\ pc = "loop"
       /\ \E pt \in BatchPoints(measurement_name, Len(inputs)) :
              Len(inputs) < MaxBatchPoints /\ ProcessPoint(pt)
       /\ UNCHANGED cvars
    \/ EndOfResults /\ UNCHANGED cvars

SpecConvertBatch == InitConvert /\ [][NextConvertBatch]_vars

(***************************************************************************)
(* Vocabulary of the properties                                            *)
(***************************************************************************)
\* the measurements whose missing server_id is replaced by a fake one and
\* whose timestamp is never adjusted
Restricted == {"client_buffer", "video_sent", "video_acked"}

DeclaredTags == tag_keys[measurement_name]
ServerId == Key("server_id")

\* the series keys committed before the i-th raw point was read
SeenBefore(i) == {series_log[j] : j \in 1..(i - 1)}

\* the raw point lacks a declared tag key other than an excused server_id
LacksDeclaredTag(pt) ==
    \E j \in 1..Len(DeclaredTags) :
        /\ ~HasKey(pt, DeclaredTags[j])
        /\ ~(DeclaredTags[j] = ServerId /\ measurement_name \in Restricted)

\* the candidate series key of pt at time t, sid standing for a tag key
\* the point does not carry
Candidate(pt, t, sid) ==
    [j \in 1..(Len(DeclaredTags) + 1) |->
        IF j = 1 THEN t
        ELSE IF HasKey(pt, DeclaredTags[j - 1])
             THEN str(Get(pt, DeclaredTags[j - 1]))
             ELSE sid]

\* the dedup key of an emitted point: its time and, in declared order, the
\* value of each tag (<<v>>) or its absence (<<>>)
DedupKey(p) ==
    <<p.time,
      [j \in 1..Len(DeclaredTags) |->
          IF DeclaredTags[j] \in DOMAIN p.tags
          THEN <<p.tags[DeclaredTags[j]]>> ELSE <<>>]>>

\* raw key k is emitted under name e: the name itself or the name without
\* a trailing _1
EmittedUnder(k, e) == e = k \/ Dup(e) = k

(***************************************************************************)
(* C1: the points emitted for one measurement have pairwise distinct       *)
(* dedup keys (emitted time, emitted tag values in declared order).        *)
(***************************************************************************)
C1_EmittedKeysDistinct ==
    \A i, j \in 1..Len(emitted) :
        i # j => DedupKey(emitted[i]) # DedupKey(emitted[j])

(***************************************************************************)
(* C2: when server_id was absent from the raw point of client_buffer,      *)
(* video_sent or video_acked, the emitted tags['server_id'] is the         *)
(* resolved fake server id, whatever other raw keys the point carries.     *)
(***************************************************************************)
C2_SyntheticServerIdWins ==
    measurement_name \in Restricted =>
        \A i \in 1..Len(emitted) :
            ~HasKey(inputs[i], ServerId) =>
                /\ ServerId \in DOMAIN emitted[i].tags
                /\ emitted[i].tags[ServerId]
                       = series_log[i][Len(series_log[i])]

\* raw key k with value val is a tag, a field, of emitted point p
InTags(p, k, val) ==
    \E e \in DOMAIN p.tags : EmittedUnder(k, e) /\ p.tags[e] = str(val)

InFields(p, k, val) ==
    \E e \in DOMAIN p.fields :
        /\ EmittedUnder(k, e)
        /\ p.fields[e] = Coerce(field_keys[measurement_name][e], val)

(***************************************************************************)
(* C3: every raw key of an emitted point whose value is not None is found  *)
(* in exactly one of its tags and fields, under its name or its name       *)
(* without _1, with its own value (as text for a tag, converted to the     *)
(* declared type for a field).                                             *)
(***************************************************************************)
C3_NoKeyDropped ==
    \A i \in 1..Len(emitted) :
        \A n \in 1..Len(inputs[i].items) :
            LET k == inputs[i].items[n][1]
                val == inputs[i].items[n][2]
            IN  val # NoneVal =>
                    (InTags(emitted[i], k, val) # InFields(emitted[i], k, val))

(***************************************************************************)
(* C4: in client_buffer, video_sent and video_acked a raw point that       *)
(* carries every declared tag and whose series key is already committed    *)
(* ends the conversion with the fatal exit of line 127 and is not emitted; *)
(* every emitted point of these measurements has the time of its raw       *)
(* point.                                                                  *)
(***************************************************************************)
C4_NoTimestampShift ==
    measurement_name \in Restricted =>
        /\ \A i \in 1..Len(emitted) : emitted[i].time = inputs[i].time
        /\ \A i \in 1..Len(inputs) :
               (/\ ~LacksDeclaredTag(inputs[i])
                /\ HasKey(inputs[i], ServerId)
                /\ Candidate(inputs[i], inputs[i].time, "") \in SeenBefore(i))
               => /\ i = Len(inputs)
                  /\ pc = "exit"
                  /\ exit_msg = "UnresolvableCollision"
                  /\ Len(emitted) = i - 1

\* a video_sent point with its server_id collided and the run was aborted
C4_Reached ==
    /\ measurement_name = "video_sent"
    /\ pc = "exit"
    /\ exit_msg = "UnresolvableCollision"
    /\ Len(emitted) >= 1
    /\ HasKey(inputs[Len(inputs)], ServerId)

\* the tags of emitted point p are the declared tags of raw point pt, a
\* None dropped
RawTagsEmitted(pt, p) ==
    \A j \in 1..Len(DeclaredTags) :
        LET k == DeclaredTags[j] IN
        IF Get(pt, k) = NoneVal THEN k \notin DOMAIN p.tags
        ELSE k \in DOMAIN p.tags /\ p.tags[k] = str(Get(pt, k))

\* n is the least shift of the time of the i-th raw point pt whose series
\* key was not committed before
LeastShift(pt, i, n) ==
    /\ Candidate(pt, pt.time + n, "") \notin SeenBefore(i)
    /\ \A d \in 0..(n - 1) : Candidate(pt, pt.time + d, "") \in SeenBefore(i)

(***************************************************************************)
(* C5: outside client_buffer, video_sent and video_acked a collision is    *)
(* never fatal: a raw point (time t, every declared tag present) whose     *)
(* series key is already committed never takes the exit of line 127, and   *)
(* when it is emitted its tags have the raw tag values and its time is     *)
(* t + n, n the least number of ticks for which (t + n, tag values) is not *)
(* committed.                                                              *)
(***************************************************************************)
C5_CollisionShiftsTime ==
    measurement_name \notin Restricted =>
        /\ exit_msg # "UnresolvableCollision"
        /\ \A i \in 1..Len(emitted) :
               Candidate(inputs[i], inputs[i].time, "") \in SeenBefore(i) =>
                   /\ \E n \in 1..i :
                          /\ emitted[i].time = inputs[i].time + n
                          /\ LeastShift(inputs[i], i, n)
                   /\ RawTagsEmitted(inputs[i], emitted[i])

\* s is the least server id of the i-th raw point pt whose series key was
\* not committed before
LeastServerId(pt, i, s) ==
    /\ Candidate(pt, pt.time, str_int(s)) \notin SeenBefore(i)
    /\ \A d \in 1..(s - 1) :
           Candidate(pt, pt.time, str_int(d)) \in SeenBefore(i)

(***************************************************************************)
(* C6: a client_buffer, video_sent or video_acked point without server_id  *)
(* is emitted at its raw time with server_id the text of the least         *)
(* positive s for which (time, other tag values, s) is not committed: "1"  *)
(* for the first of two points with the same time and channel, "2" for     *)
(* the second.                                                             *)
(***************************************************************************)
C6_FakeServerIdCounts ==
    measurement_name \in Restricted =>
        \A i \in 1..Len(emitted) :
            ~HasKey(inputs[i], ServerId) =>
                /\ emitted[i].time = inputs[i].time
                /\ ServerId \in DOMAIN emitted[i].tags
                /\ \E s \in 1..i :
                       /\ emitted[i].tags[ServerId] = str_int(s)
                       /\ LeastServerId(inputs[i], i, s)

(***************************************************************************)
(* C7: a raw point that lacks a declared tag key, other than server_id in  *)
(* client_buffer, video_sent or video_acked, ends the conversion with the  *)
(* fatal exit of line 109: it is not emitted and it is the last point      *)
(* read.  That exit is taken for no other raw point.                       *)
(***************************************************************************)
C7_MissingTagIsFatal ==
    /\ \A i \in 1..Len(inputs) :
           LacksDeclaredTag(inputs[i]) =>
               /\ i = Len(inputs)
               /\ pc = "exit"
               /\ exit_msg = "MissingDeclaredTag"
               /\ Len(emitted) = i - 1
               /\ Len(series_log) = i - 1
    /\ exit_msg = "MissingDeclaredTag" =>
           /\ pc = "exit"
           /\ LacksDeclaredTag(inputs[Len(inputs)])

\* a point without server_id ended the conversion of a measurement where
\* that is not excused, after another point was emitted
C7_Reached ==
    /\ measurement_name = "active_streams"
    /\ pc = "exit"
    /\ exit_msg = "MissingDeclaredTag"
    /\ Len(emitted) >= 1
    /\ ~HasKey(inputs[Len(inputs)], ServerId)
    /\ HasKey(inputs[Len(inputs)], Key("channel"))

\* k is a declared tag key or field key of the measurement
Declared(k) ==
    k \in Range(DeclaredTags) \/ k \in DOMAIN field_keys[measurement_name]

\* the n-th key of pt is not None and normalises to an undeclared name
Undeclared(pt, n) ==
    /\ pt.items[n][2] # NoneVal
    /\ ~Declared(Normalize(measurement_name, pt.items[n][1]))

HasUndeclaredKey(pt) == \E n \in 1..Len(pt.items) : Undeclared(pt, n)

\* the batches put end to end
RECURSIVE Flatten(_)
Flatten(batches) ==
    IF batches = <<>> THEN <<>>
    ELSE Flatten(SubSeq(batches, 1, Len(batches) - 1))
         \o batches[Len(batches)]

\* the i-th raw point was the last one read, ended the run and is in no
\* batch
AbortedAt(i) ==
    /\ i = Len(inputs)
    /\ pc = "exit"
    /\ Len(emitted) = i - 1
    /\ Flatten(written) \o json_body = emitted

(***************************************************************************)
(* C8: a raw point with a non-None key whose normalised name is neither a  *)
(* declared tag key nor a declared field key ends the conversion with the  *)
(* fatal exit of line 159 (UnclassifiableKey); it is not appended to       *)
(* json_body and not written.                                              *)
(***************************************************************************)
C8_UndeclaredKeyExit ==
    \A i \in 1..Len(inputs) :
        HasUndeclaredKey(inputs[i]) =>
            AbortedAt(i) /\ exit_msg = "UnclassifiableKey"

\* a field value read before the n-th key of pt cannot be converted
ConversionFailsBefore(pt, n) ==
    \E j \in 1..(n - 1) :
        LET k == Normalize(measurement_name, pt.items[j][1]) IN
        /\ pt.items[j][2] # NoneVal
        /\ k \notin Range(DeclaredTags)
        /\ k \in DOMAIN field_keys[measurement_name]
        /\ Coerce(field_keys[measurement_name][k], pt.items[j][2]) = ValueError

\* the exit the i-th raw point pt, which has an undeclared key, takes
FirstFailure(pt, i) ==
    IF LacksDeclaredTag(pt) THEN "MissingDeclaredTag"
    ELSE IF /\ measurement_name \in Restricted
            /\ HasKey(pt, ServerId)
            /\ Candidate(pt, pt.time, "") \in SeenBefore(i)
         THEN "UnresolvableCollision"
         ELSE IF \E n \in 1..Len(pt.items) :
                     /\ Undeclared(pt, n)
                     /\ \A j \in 1..(n - 1) : ~Undeclared(pt, j)
                     /\ ConversionFailsBefore(pt, n)
              THEN "TypeCoercionFailure"
              ELSE "UnclassifiableKey"

\* C8 as amended: the run is aborted at that point, by the exit of the
\* first check that fails: the missing declared tag, the collision of a
\* measurement whose timestamp is not adjusted, a field value read before
\* the undeclared key that cannot be converted, or the undeclared key.
C8_UndeclaredKeyAborts ==
    \A i \in 1..Len(inputs) :
        HasUndeclaredKey(inputs[i]) =>
            AbortedAt(i) /\ exit_msg = FirstFailure(inputs[i], i)

\* an undeclared key ended the run by the exit of line 159 after points
\* were appended
C8_Reached ==
    /\ pc = "exit"
    /\ exit_msg = "UnclassifiableKey"
    /\ HasUndeclaredKey(inputs[Len(inputs)])
    /\ Len(json_body) >= 1
    /\ Len(series_log) = Len(inputs)

(***************************************************************************)
(* C9: when convert_measurement returns after N raw points, the batches    *)
(* written are, put end to end, the N emitted points in the order of the   *)
(* raw points, each once; every batch but the last has 1000 points, the    *)
(* last has 1 to 1000, and no batch is empty.                              *)
(***************************************************************************)
C9_BatchesAreTheOutput ==
    pc = "done" =>
        /\ Len(emitted) = Len(inputs)
        /\ Flatten(written) = emitted
        /\ \A i \in 1..Len(emitted) :
               /\ emitted[i].time = series_log[i][1]
               /\ emitted[i].time >= inputs[i].time
        /\ \A b \in 1..Len(written) :
               /\ Len(written[b]) >= 1
               /\ Len(written[b]) <= 1000
               /\ b < Len(written) => Len(written[b]) = 1000

\* 1001 points were converted: a full batch and a last one of 1 point
C9_Reached ==
    /\ pc = "done"
    /\ Len(inputs) = 1001
    /\ Len(written) = 2
    /\ Len(written[1]) = 1000
    /\ Len(written[2]) = 1

(***************************************************************************)
(* C10: a trailing _1 of a raw key is dropped exactly when the measurement *)
(* is not server_info: elsewhere a raw key k_1 is emitted under k and not  *)
(* under k_1 (cwnd_1 of video_sent under cwnd); in server_info             *)
(* server_id_1 is emitted as the field server_id_1 and the tag server_id   *)
(* keeps the value of the raw server_id; a key without _1 is emitted       *)
(* under its own name.                                                     *)
(***************************************************************************)
\* the names under which emitted point p holds a tag or a field
EmittedKeys(p) == DOMAIN p.tags \cup DOMAIN p.fields

C10_SuffixStripping ==
    \A i \in 1..Len(emitted) :
        \A n \in 1..Len(inputs[i].items) :
            LET pt == inputs[i]
                p == emitted[i]
                k == pt.items[n][1]
                val == pt.items[n][2]
                base == SubSeq(k, 1, Len(k) - 1)
            IN  val # NoneVal =>
                    IF k[Len(k)] = "_1" /\ measurement_name # "server_info"
                    THEN /\ base \in EmittedKeys(p)
                         /\ k \notin EmittedKeys(p)
                    ELSE /\ k \in EmittedKeys(p)
                         /\ k = Dup(ServerId) =>
                                /\ k \in DOMAIN p.fields
                                /\ p.fields[k] = py_int(val)
                                /\ IF Get(pt, ServerId) = NoneVal
                                   THEN ServerId \notin DOMAIN p.tags
                                   ELSE /\ ServerId \in DOMAIN p.tags
                                        /\ p.tags[ServerId]
                                               = str(Get(pt, ServerId))

\* a video_sent point carrying cwnd_1 and no cwnd was emitted with the
\* field cwnd
C10_Reached ==
    /\ measurement_name = "video_sent"
    /\ \E i \in 1..Len(emitted) :
           /\ HasKey(inputs[i], Dup(Key("cwnd")))
           /\ ~HasKey(inputs[i], Key("cwnd"))
           /\ Key("cwnd") \in DOMAIN emitted[i].fields
           /\ emitted[i].fields[Key("cwnd")] = PyInt("3")

\* the runs of convert_measurement so far, the current one last
AllRuns == IF pc = "idle" THEN finished ELSE Append(finished, CurrentRun)

\* convert_measurement(m) alone on the raw points ins, from the i-th on,
\* with the keys dup committed and the points out emitted
RECURSIVE Alone(_, _, _, _, _)
Alone(m, ins, i, dup, out) ==
    IF i > Len(ins) THEN [exit |-> "none", emitted |-> out]
    ELSE LET r == ConvertPoint(m, ins[i], dup) IN
         IF r.exit # "none" THEN [exit |-> r.exit, emitted |-> out]
         ELSE Alone(m, ins, i + 1, dup \cup {r.st.series}, Append(out, r.point))

(***************************************************************************)
(* C11: the set of seen dedup keys belongs to one call of                  *)
(* convert_measurement: while a measurement is converted the set holds     *)
(* the keys committed by this call and no other, and every run of          *)
(* convert_measurement, finished or current, has emitted the points        *)
(* (times, synthetic server_id values) and taken the exit that the same    *)
(* raw points give when the measurement is converted alone from an empty   *)
(* set.                                                                    *)
(***************************************************************************)
C11_RunsAreIndependent ==
    /\ pc # "idle" => dup_check = Range(series_log)
    /\ \A n \in 1..Len(AllRuns) :
           LET r == AllRuns[n]
               a == Alone(r.name, r.inputs, 1, {}, <<>>)
           IN  r.emitted = a.emitted /\ r.exit = a.exit

\* a second measurement emitted a point whose key the first measurement
\* had committed
C11_Reached ==
    /\ Len(finished) = 1
    /\ pc = "done"
    /\ Len(emitted) = 1
    /\ Len(finished[1].emitted) = 1
    /\ DedupKey(emitted[1]) = DedupKey(finished[1].emitted[1])
    /\ measurement_name # finished[1].name

\* the calls of convert that follow all conversions
AfterConversion ==
    {Call("influxd backup", "DST_DB"), Call("tar czvf", ""),
     Call("gsutil cp", "")}

\* the last whole batch of the emitted points ends here
WholeBatches == BatchSize * (Len(emitted) \div BatchSize)

(***************************************************************************)
(* C12: once a raw point has ended convert_measurement fatally after i     *)
(* points of the measurement were emitted, the writes of this call to the  *)
(* destination are exactly the first 1000 * floor(i / 1000) emitted        *)
(* points, in batches of 1000; the points emitted after them are pending   *)
(* in json_body and not written; convert has made no call after            *)
(* convert_measurement (no backup, no tar, no upload), and from then on    *)
(* nothing is written and no call is made.                                 *)
(***************************************************************************)
C12_AbortKeepsWholeBatches ==
    /\ [](pc = "exit" =>
            /\ Flatten(written) = SubSeq(emitted, 1, WholeBatches)
            /\ \A b \in 1..Len(written) : Len(written[b]) = BatchSize
            /\ json_body = SubSeq(emitted, WholeBatches + 1, Len(emitted))
            /\ calls[Len(calls)] = Call("convert_measurement", measurement_name)
            /\ Range(calls) \cap AfterConversion = {})
    /\ [][pc = "exit" => UNCHANGED <<written, calls, finished>>]_vars

\* a fatal exit after 1001 emitted points: one batch written, one point
\* pending
C12_Reached ==
    /\ pc = "exit"
    /\ Len(emitted) = BatchSize + 1
    /\ Len(written) = 1
    /\ Len(json_body) = 1

\* the positions of the calls `c` among the calls of convert
Positions(c) == {n \in 1..Len(calls) : calls[n] = c}

\* the positions of the calls of convert_measurement
Conversions == {n \in 1..Len(calls) : calls[n].call = "convert_measurement"}

\* the measurements convert_measurement was called on, in order
RECURSIVE ConvertedNames(_)
ConvertedNames(n) ==
    IF n = 0 THEN <<>>
    ELSE IF n \in Conversions THEN Append(ConvertedNames(n - 1), calls[n].arg)
         ELSE ConvertedNames(n - 1)

\* how many times convert_measurement was called on m
TimesConverted(m) == Cardinality({n \in Conversions : calls[n].arg = m})

\* some point was written to the destination database
SomePointWritten == \E n \in 1..Len(AllRuns) : AllRuns[n].written # <<>>

\* the destination database was dropped, then created, and not dropped
\* again, all before the first conversion
DroppedAndRecreated ==
    \E d \in Positions(Call("drop_database", "DST_DB")) :
    \E c \in Positions(Call("create_database", "DST_DB")) :
        /\ d < c
        /\ \A n \in Conversions : c < n
        /\ \A n \in Positions(Call("drop_database", "DST_DB")) : n <= d

\* the measurements are converted in the order of the snapshot, the next
\* one after the previous one has returned without a fatal exit
OneAtATime ==
    /\ ConvertedNames(Len(calls)) =
           SubSeq(snapshot, 1, Len(snapshot) - Len(todo))
    /\ Len(AllRuns) = Len(snapshot) - Len(todo)
    /\ \A n \in 1..Len(AllRuns) : AllRuns[n].name = snapshot[n]
    /\ \A n \in 1..Len(finished) : finished[n].exit = "none"
    /\ \A m \in Range(snapshot) : TimesConverted(m) <= 1

\* backup, then tar, then upload, each at most once and after every
\* measurement of the snapshot was converted without a fatal exit
BackupAfterConversions ==
    /\ \A a \in AfterConversion : \A n \in Positions(a) :
           /\ \A k \in Conversions : k < n
           /\ todo = <<>>
           /\ pc \in {"idle", "done"}
           /\ \A r \in 1..Len(AllRuns) : AllRuns[r].exit = "none"
           /\ \A m \in Range(snapshot) : TimesConverted(m) = 1
    /\ \A n \in Positions(Call("tar czvf", "")) :
           \E k \in Positions(Call("influxd backup", "DST_DB")) : k < n
    /\ \A n \in Positions(Call("gsutil cp", "")) :
           \E k \in Positions(Call("tar czvf", "")) : k < n

\* convert has returned, or an exception has ended it
Ended == pc = "exit" \/ conv_pc \in {"returned", "failed"}

(***************************************************************************)
(* C13 as stated: in every execution of convert the destination database   *)
(* is dropped and recreated before the first point is written, every       *)
(* measurement of the restored snapshot is converted exactly once and one  *)
(* at a time, and backup, compression and upload happen only after all     *)
(* measurements were converted without a fatal error.                      *)
(***************************************************************************)
C13_EveryMeasurementConverted ==
    /\ SomePointWritten => DroppedAndRecreated
    /\ OneAtATime
    /\ Ended => \A m \in Range(snapshot) : TimesConverted(m) = 1
    /\ BackupAfterConversions

(***************************************************************************)
(* C13 amended: the destination database is dropped and recreated before   *)
(* the first point is written; the measurements of the restored snapshot   *)
(* are converted one at a time in the order of the snapshot, each at most  *)
(* once, and each exactly once in an execution that reaches the backup;    *)
(* backup, compression and upload happen in this order and only after all  *)
(* measurements were converted without a fatal error.                      *)
(***************************************************************************)
C13_ConvertedInOrderThenBackup ==
    /\ SomePointWritten => DroppedAndRecreated
    /\ OneAtATime
    /\ BackupAfterConversions

\* convert returned after two measurements, each with points written
C13_Reached ==
    /\ conv_pc = "returned"
    /\ Len(snapshot) = 2
    /\ \A n \in 1..2 : AllRuns[n].written # <<>>
    /\ Positions(Call("gsutil cp", "")) # {}

\* key is the candidate key of pt after n perturbations: the synthetic
\* server_id raised n times from 1, or the time moved by n microseconds
Perturbed(pt, key, n) ==
    IF measurement_name \in Restricted /\ ~HasKey(pt, ServerId)
    THEN key = Candidate(pt, pt.time, str_int(n + 1))
    ELSE key = Candidate(pt, pt.time + n, "")

\* the i-th raw point left the collision loop with a fresh key after at
\* most one perturbation more than there were committed keys
ResolvedWithin(i) ==
    /\ series_log[i] \notin SeenBefore(i)
    /\ \E n \in 0..(Cardinality(SeenBefore(i)) + 1) :
           Perturbed(inputs[i], series_log[i], n)

(***************************************************************************)
(* C14: the collision loop ends for every raw point: a point that went     *)
(* through it has committed a key that was not in the set of committed     *)
(* keys, reached by at most (number of committed keys + 1) perturbations   *)
(* of its synthetic server_id or of its time, and a point that committed   *)
(* no key has ended the conversion fatally; and the conversion of the      *)
(* points read eventually returns or ends fatally.                         *)
(***************************************************************************)
C14_CollisionLoopEnds ==
    /\ [](/\ \A i \in 1..Len(series_log) : ResolvedWithin(i)
          /\ Len(series_log) \in {Len(inputs), Len(inputs) - 1}
          /\ Len(series_log) < Len(inputs) => pc = "exit")
    /\ <>(pc \in {"done", "exit"})

\* a point committed after two perturbations, both committed keys in its
\* way, and the conversion returned
C14_Reached ==
    /\ pc = "done"
    /\ Len(series_log) = 3
    /\ Perturbed(inputs[3], series_log[3], 2)
    /\ Cardinality(SeenBefore(3)) = 2

=============================================================================
